---------------------------- MODULE Spec2Model ----------------------------
(***************************************************************************)
(* fms/distributed/strategy.py: the distribution strategies of the         *)
(* foundation model stack.                                                 *)
(*                                                                         *)
(*   DistributedStrategy            the ignore-list gate in front of the   *)
(*                                  strategy-specific operations           *)
(*   NotDistributed                 the identity strategy                  *)
(*   DeviceMover                    wrapper that moves inputs to a device  *)
(*   UniformModelParallelStrategy   whole layers on whole devices          *)
(*   generate_layer_plan            the weight pattern classifier          *)
(*   TensorParallelStrategy         sharding over a device mesh            *)
(*                                                                         *)
(* Python lists are sequences (1-based here, 0-based there: PyGetItem and  *)
(* PySetItem translate, negative indices included).  Devices are opaque    *)
(* identifiers, written as strings.                                        *)
(***************************************************************************)
EXTENDS Integers, Sequences, FiniteSets, TLC

VARIABLES
    ignore_modules,   \* _distributed_strategy_ignore_modules (process-wide)
    strategy,         \* the strategy object of the run
    ctor,             \* the arguments the strategy was constructed with
    module,           \* the nn.Module handed to the strategy
    ret,              \* the last distribute_* call: its arguments and outcome
    block,            \* generate_layer_plan: the block's named_modules()
    tp_plan,          \* generate_layer_plan: its arguments and the plan returned
    fwd               \* DeviceMover.forward: the last invocation

vars == <<ignore_modules, strategy, ctor, module, ret, block, tp_plan, fwd>>

---------------------------------------------------------------------------
(* Bounds of the model.                                                    *)

\* longest device list given to UniformModelParallelStrategy (SpecTable)
MaxDevices == 3
\* largest num_layers given to UniformModelParallelStrategy (SpecTable)
MaxLayers == 8
\* longest device list of a strategy that goes on to distribute modules
MaxRunDevices == 2
\* largest num_layers of a strategy that goes on to distribute modules
MaxRunLayers == 2
\* largest world size of the device mesh
MaxWorld == 3
\* largest head count of an attention module
MaxHeads == 4
\* most sub-modules of a block given to generate_layer_plan
MaxSubmodules == 2
\* most positional arguments, and most keyword arguments, of a forward call
MaxArgs == 2

\* the devices a device list may name
DeviceIds == {"0", "1", "2"}
\* where a module's parameters are before any strategy touched it
HostDevices == {"cpu", "meta"}

\* the device lists of length 1..n
DeviceLists(n) == UNION {[1..k -> DeviceIds] : k \in 1..n}

Range(s) == {s[i] : i \in DOMAIN s}

---------------------------------------------------------------------------
(* Python list indexing.                                                   *)

\* faulty variant: an index test without Python's negative indices
PyIndexOkNonNegative(list, i) == 0 <= i /\ i < Len(list)

\* whether list[i] exists: 0 <= i < len, or -len <= i < 0 counted from the end
PyIndexOk(list, i) == (-Len(list)) <= i /\ i < Len(list)

\* list[i] for an index PyIndexOk accepts
PyGetItem(list, i) == IF i >= 0 THEN list[i + 1] ELSE list[Len(list) + i + 1]

\* list[i] = v for an index PyIndexOk accepts
PySetItem(list, i, v) ==
    IF i >= 0 THEN [list EXCEPT ![i + 1] = v]
    ELSE [list EXCEPT ![Len(list) + i + 1] = v]

---------------------------------------------------------------------------
(* UniformModelParallelStrategy.__init__                                   *)

\* self.layer_to_device[layer_id] = devices[dev_idx]; layer_id = layer_id + 1
\* (st.err records the IndexError of an assignment past the end of the list)
AssignLayer(st, dev) ==
    IF st.err \/ ~PyIndexOk(st.layer_to_device, st.layer_id)
    THEN [st EXCEPT !.err = TRUE]
    ELSE [st EXCEPT !.layer_to_device = PySetItem(@, st.layer_id, dev),
                    !.layer_id = @ + 1]

\* for i in range(layers_per_dev): <assign>
RECURSIVE LayersLoop(_, _, _, _)
LayersLoop(st, dev, i, layers_per_dev) ==
    IF i >= layers_per_dev THEN st
    ELSE LayersLoop(AssignLayer(st, dev), dev, i + 1, layers_per_dev)

\* if remainder > 0: <assign>; remainder -= 1
RemainderStep(st, dev) ==
    IF st.remainder > 0
    THEN [AssignLayer(st, dev) EXCEPT !.remainder = @ - 1]
    ELSE st

\* faulty variant: the extra layers go to the last devices of the list
RemainderStepLast(st, dev, dev_idx, num_dev) ==
    IF dev_idx > num_dev - st.remainder
    THEN AssignLayer(st, dev)
    ELSE st

\* for dev_idx in range(len(devices)): <layers loop>; <remainder step>
RECURSIVE DevicesLoop(_, _, _, _)
DevicesLoop(st, devices, dev_idx, layers_per_dev) ==
    IF dev_idx > Len(devices) THEN st
    ELSE DevicesLoop(
            RemainderStep(LayersLoop(st, devices[dev_idx], 0, layers_per_dev),
                          devices[dev_idx]),
            devices, dev_idx + 1, layers_per_dev)

\* faulty variant: the devices loop with that remainder step
RECURSIVE DevicesLoopLast(_, _, _, _)
DevicesLoopLast(st, devices, dev_idx, layers_per_dev) ==
    IF dev_idx > Len(devices) THEN st
    ELSE DevicesLoopLast(
            RemainderStepLast(LayersLoop(st, devices[dev_idx], 0, layers_per_dev),
                              devices[dev_idx], dev_idx, Len(devices)),
            devices, dev_idx + 1, layers_per_dev)

\* the loop state before the first device: [0] * num_layers, layer_id = 0
BuildStart(num_dev, num_layers) ==
    [layer_to_device |-> [i \in 1..num_layers |-> "0"],
     layer_id        |-> 0,
     remainder       |-> num_layers - ((num_layers \div num_dev) * num_dev),
     err             |-> FALSE]

\* faulty variant: the remainder is dropped (the last layers keep the fill value)
BuildLayerToDeviceNoRemainder(devices, num_layers) ==
    DevicesLoop([BuildStart(Len(devices), num_layers) EXCEPT !.remainder = 0],
                devices, 1, num_layers \div Len(devices))

\* faulty variant: the extra layers go to the last devices of the list
BuildLayerToDeviceLast(devices, num_layers) ==
    DevicesLoopLast(BuildStart(Len(devices), num_layers),
                    devices, 1, num_layers \div Len(devices))

\* the body of __init__ after super().__init__: the final loop state
BuildLayerToDevice(devices, num_layers) ==
    DevicesLoop(BuildStart(Len(devices), num_layers),
                devices, 1, num_layers \div Len(devices))

---------------------------------------------------------------------------
(* The objects of a run.                                                   *)

\* type(module).__name__ of the modules handed to a strategy
ModuleClasses == {"LLaMABlock", "WordEmbedding"}

\* hasattr(module, "attn"): a transformer block has an attention sub-module
HasAttn(cls) == cls = "LLaMABlock"

\* Python's None, passed (or defaulted) as the model argument
NONE == "<None>"
\* the values of the model argument
ModelTags == {NONE, "", "llama", "granite", "bert"}
\* Python's `not model`
Falsy(model) == model \in {NONE, ""}

\* "DISTRIBUTED_STRATEGY_IGNORE_MODULES" in os.environ ... .split(",") / []
IgnoreLists == {{}, {"LLaMABlock"}}

NoDevice == "none"

\* an nn.Module:
\*   cls           type(module).__name__
\*   device        where its parameters and buffers are
\*   materialized  to_empty() re-allocated them, uninitialised
\*   nheads, kvheads   attn.nheads, attn.kvheads (0 without attn)
\*   dict_device   __dict__["device"] as DeviceMover.__init__ set it, with
\*                 __dict__["module"] = the module itself; NoDevice before

\* DistributedStrategy.__init__ and the fields of its subclasses
StrategyObject(cls, from_meta, l2d, mesh, sp) ==
    [cls |-> cls, from_meta |-> from_meta, layer_to_device |-> l2d,
     mesh_size |-> mesh, use_sequence_parallelism |-> sp]

\* NotDistributed.__init__
NotDistributed(from_meta) ==
    StrategyObject("NotDistributed", from_meta, <<>>, 0, FALSE)

\* NoOpStrategy = NotDistributed()
NoOpStrategy == NotDistributed(FALSE)

\* UniformModelParallelStrategy.__init__ (for arguments it accepts)
UniformModelParallelStrategy(devices, num_layers, from_meta) ==
    StrategyObject("UniformModelParallelStrategy", from_meta,
                   BuildLayerToDevice(devices, num_layers).layer_to_device,
                   0, FALSE)

\* TensorParallelStrategy.__init__ with a process group initialised:
\* device_mesh = init_device_mesh(device_type, (world,)), and
\* use_sequence_parallelism from the environment
TensorParallelStrategy(world, sp, from_meta) ==
    StrategyObject("TensorParallelStrategy", from_meta, <<>>, world, sp)

NoModule == [cls |-> "none", device |-> NoDevice, materialized |-> FALSE,
             nheads |-> 0, kvheads |-> 0, dict_device |-> NoDevice]

---------------------------------------------------------------------------
(* generate_layer_plan                                                     *)

\* the classes of the sub-modules named_modules() yields
SubmoduleClasses ==
    {"Linear", "LayerNorm", "Dropout", "LayerNormParameterized", "Module"}

\* dotted names of sub-modules: the names the patterns accept, and names
\* they do not ("" is the block itself; a prefix of an accepted name; an
\* accepted name with a suffix; an accepted name with another separator)
SubmoduleNames ==
    {"", "ln", "attn.in_proj", "attn.in_proj.qkv_fused", "attn.in_proj.query",
     "attn.dense", "attn_dense", "ff_sub_layer.wg1_fused", "ff_sub_layer.w1",
     "ff_sub_layer.wg", "ff_sub_layer.w2", "ff_sub_layer.w2.adapter"}

\* a regular expression is written as the set of strings it matches in full
\* (each pattern of the source matches finitely many)
colwise_patterns ==
    << {"attn.in_proj.qkv_fused"},
       {"attn.in_proj.query", "attn.in_proj.key", "attn.in_proj.value"},
       {"ff_sub_layer.wg1_fused"},
       {"ff_sub_layer.w1"},
       {"ff_sub_layer.wg"} >>

rowwise_patterns ==
    << {"attn.dense"},
       {"ff_sub_layer.w2"} >>

\* re.fullmatch(pattern, name)
fullmatch(pattern, name) == name \in pattern

\* tp_plan = {}
EmptyPlan == [n \in {} |-> "ColwiseParallel"]

\* tp_plan[name] = style
PlanSet(plan, name, style) ==
    [n \in (DOMAIN plan) \cup {name} |-> IF n = name THEN style ELSE plan[n]]

\* for pattern in patterns: if re.fullmatch(pattern, name): tp_plan[name] = style; break
RECURSIVE ScanPatterns(_, _, _, _, _)
ScanPatterns(plan, patterns, i, name, style) ==
    IF i > Len(patterns) THEN plan
    ELSE IF fullmatch(patterns[i], name) THEN PlanSet(plan, name, style)
    ELSE ScanPatterns(plan, patterns, i + 1, name, style)

\* isinstance(module, (nn.LayerNorm, nn.Dropout, LayerNormParameterized))
IsNormOrDropout(cls) == cls \in {"LayerNorm", "Dropout", "LayerNormParameterized"}

\* faulty variant: the pattern loops come first, whatever the sub-module's class
ClassifyPatternsFirst(plan, name, cls, use_sequence_parallelism) ==
    LET p == ScanPatterns(ScanPatterns(plan, colwise_patterns, 1, name, "ColwiseParallel"),
                          rowwise_patterns, 1, name, "RowwiseParallel")
    IN  IF name \in DOMAIN p THEN p
        ELSE IF use_sequence_parallelism /\ IsNormOrDropout(cls)
        THEN PlanSet(p, name, "SequenceParallel")
        ELSE p

\* faulty variant: every pattern marks the sub-module column-sharded
ClassifyAllColwise(plan, name, cls, use_sequence_parallelism) ==
    IF use_sequence_parallelism /\ IsNormOrDropout(cls)
    THEN PlanSet(plan, name, "SequenceParallel")
    ELSE IF cls = "Linear"
    THEN ScanPatterns(ScanPatterns(plan, colwise_patterns, 1, name, "ColwiseParallel"),
                      rowwise_patterns, 1, name, "ColwiseParallel")
    ELSE plan

\* the if / elif / else of the loop body, for one (name, module)
Classify(plan, name, cls, use_sequence_parallelism) ==
    IF use_sequence_parallelism /\ IsNormOrDropout(cls)
    THEN PlanSet(plan, name, "SequenceParallel")
    ELSE IF cls = "Linear"
    THEN ScanPatterns(ScanPatterns(plan, colwise_patterns, 1, name, "ColwiseParallel"),
                      rowwise_patterns, 1, name, "RowwiseParallel")
    ELSE plan

\* for name, module in block.named_modules(): <classify>
RECURSIVE NamedModulesLoop(_, _, _, _)
NamedModulesLoop(plan, named_modules, i, use_sequence_parallelism) ==
    IF i > Len(named_modules) THEN plan
    ELSE NamedModulesLoop(
            Classify(plan, named_modules[i].name, named_modules[i].cls,
                     use_sequence_parallelism),
            named_modules, i + 1, use_sequence_parallelism)

\* generate_layer_plan(block, use_sequence_parallelism), block given by its
\* named_modules(): a list of (name, module class) with distinct names
generate_layer_plan(named_modules, use_sequence_parallelism) ==
    NamedModulesLoop(EmptyPlan, named_modules, 1, use_sequence_parallelism)

\* block.named_modules() of the module classes of a run
NamedModules(cls) ==
    IF cls = "LLaMABlock"
    THEN << [name |-> "", cls |-> "Module"],
            [name |-> "ln", cls |-> "LayerNormParameterized"],
            [name |-> "attn.in_proj.query", cls |-> "Linear"],
            [name |-> "attn.dense", cls |-> "Linear"],
            [name |-> "ff_sub_layer.w1", cls |-> "Linear"],
            [name |-> "ff_sub_layer.w2", cls |-> "Linear"] >>
    ELSE << [name |-> "", cls |-> "Module"] >>

---------------------------------------------------------------------------
(* The strategy-specific operations.  Each yields the module as the call   *)
(* leaves it and what the call returns:                                    *)
(*   result  "module"             the module handed in, itself             *)
(*           "DeviceMover"        a new DeviceMover around it              *)
(*           "apply_tp"           what tp_wrapping.apply_tp returned       *)
(*           "parallelize_module" what parallelize_module returned         *)
(*           "None"               nothing (the function ran off its end)   *)
(*           "IndexError", "ValueError", "AttributeError"   raised         *)
(*   device  the device looked up in layer_to_device (NoDevice otherwise)  *)
(*   plan    the plan handed to parallelize_module                         *)

Outcome(m, result, device, plan) ==
    [module |-> m, result |-> result, device |-> device, plan |-> plan]

\* nn.Module.to_empty(device=device): storage re-allocated on the device
to_empty(m, device) == [m EXCEPT !.device = device, !.materialized = TRUE]

\* DeviceMover.__init__: attr = module.__dict__; attr["module"] =
\* module.to(device); attr["device"] = device; self.__dict__ = attr
DeviceMoverInit(m, device) == [m EXCEPT !.device = device, !.dict_device = device]

\* NotDistributed._distribute_module
NotDistributed_distribute_module(self, m, final_layers, model) ==
    Outcome(m, "module", NoDevice, EmptyPlan)

\* NotDistributed._distribute_layer
NotDistributed_distribute_layer(self, m, layer, model) ==
    Outcome(m, "module", NoDevice, EmptyPlan)

\* UniformModelParallelStrategy._distribute_layer
Uniform_distribute_layer(self, m, layer, model) ==
    IF ~PyIndexOk(self.layer_to_device, layer)
    THEN Outcome(m, "IndexError", NoDevice, EmptyPlan)
    ELSE LET device == PyGetItem(self.layer_to_device, layer)
             b == IF self.from_meta THEN to_empty(m, device) ELSE m
         IN  Outcome(DeviceMoverInit(b, device), "DeviceMover", device, EmptyPlan)

\* faulty variant: the first layer's device also for the final layers
ModuleDeviceIndexFirst(layer_to_device, final_layers) == 0

\* the index _distribute_module looks up: len(self.layer_to_device) - 1, or 0
ModuleDeviceIndex(layer_to_device, final_layers) ==
    IF final_layers THEN Len(layer_to_device) - 1 ELSE 0

\* UniformModelParallelStrategy._distribute_module
Uniform_distribute_module(self, m, final_layers, model) ==
    LET idx == ModuleDeviceIndex(self.layer_to_device, final_layers)
    IN  IF ~PyIndexOk(self.layer_to_device, idx)
        THEN Outcome(m, "IndexError", NoDevice, EmptyPlan)
        ELSE LET device == PyGetItem(self.layer_to_device, idx)
             IN  IF self.from_meta
                 THEN Outcome(to_empty(m, device), "module", device, EmptyPlan)
                 ELSE Outcome(DeviceMoverInit(m, device), "DeviceMover", device,
                              EmptyPlan)

\* TensorParallelStrategy._distribute_module
TensorParallel_distribute_module(self, m, final_layers, model) ==
    IF Falsy(model) THEN Outcome(m, "apply_tp", NoDevice, EmptyPlan)
    ELSE IF model = "llama"
    THEN IF final_layers
         THEN Outcome(m, "parallelize_module", NoDevice,
                      [n \in {"shared.head"} |->
                          "ColwiseParallel(output_layouts=Replicate)"])
         ELSE Outcome(m, "parallelize_module", NoDevice,
                      [n \in {"shared.emb"} |->
                          "RowwiseParallel(input_layouts=Replicate)"])
    ELSE IF model = "granite"
    THEN Outcome(m, "parallelize_module", NoDevice,
                 [n \in {"head", "base_model.embedding"} |->
                     IF n = "head"
                     THEN "ColwiseParallel(output_layouts=Replicate)"
                     ELSE "RowwiseParallel(input_layouts=Replicate)"])
    ELSE Outcome(m, "None", NoDevice, EmptyPlan)

\* faulty variant: any tag that is given selects the layer plan
SupportedModelAny(model) == TRUE

\* model == 'llama' or model == 'granite'
SupportedModel(model) == model = "llama" \/ model = "granite"

\* faulty variant: the head count is left as it is
LocalHeadsUnchanged(heads, mesh_size) == heads

\* attn_layer.nheads // self.device_mesh.size()
LocalHeads(heads, mesh_size) == heads \div mesh_size

\* TensorParallelStrategy._distribute_layer
TensorParallel_distribute_layer(self, m, layer, model) ==
    IF Falsy(model) THEN Outcome(m, "apply_tp", NoDevice, EmptyPlan)
    ELSE IF SupportedModel(model)
    THEN LET layer_tp_plan ==
                 generate_layer_plan(NamedModules(m.cls),
                                     self.use_sequence_parallelism)
         IN  IF ~HasAttn(m.cls)
             THEN Outcome(m, "AttributeError", NoDevice, layer_tp_plan)
             ELSE Outcome([m EXCEPT !.nheads = LocalHeads(@, self.mesh_size),
                                    !.kvheads = LocalHeads(@, self.mesh_size)],
                          "parallelize_module", NoDevice, layer_tp_plan)
    ELSE Outcome(m, "ValueError", NoDevice, EmptyPlan)

\* the _distribute_module of the strategy's class
distribute_module_of(self, m, final_layers, model) ==
    CASE self.cls = "NotDistributed" ->
            NotDistributed_distribute_module(self, m, final_layers, model)
      [] self.cls = "UniformModelParallelStrategy" ->
            Uniform_distribute_module(self, m, final_layers, model)
      [] self.cls = "TensorParallelStrategy" ->
            TensorParallel_distribute_module(self, m, final_layers, model)

\* the _distribute_layer of the strategy's class
distribute_layer_of(self, m, layer, model) ==
    CASE self.cls = "NotDistributed" ->
            NotDistributed_distribute_layer(self, m, layer, model)
      [] self.cls = "UniformModelParallelStrategy" ->
            Uniform_distribute_layer(self, m, layer, model)
      [] self.cls = "TensorParallelStrategy" ->
            TensorParallel_distribute_layer(self, m, layer, model)

---------------------------------------------------------------------------
(* DistributedStrategy: the public operations.                             *)

\* faulty variant: nothing is ignored
should_distribute_always(module_name) == TRUE

\* DistributedStrategy.__should_distribute
should_distribute(module_name) == module_name \notin ignore_modules

NoCall == [op |-> "none", layer |-> 0, final_layers |-> FALSE, model |-> NONE,
           delegated |-> FALSE, result |-> "none", device |-> NoDevice,
           plan |-> EmptyPlan]

\* what a distribute_* call leaves behind: its arguments, whether the
\* strategy-specific operation was invoked, and what came back
CallRecord(op, layer, final_layers, model, delegated, out) ==
    [op |-> op, layer |-> layer, final_layers |-> final_layers, model |-> model,
     delegated |-> delegated, result |-> out.result, device |-> out.device,
     plan |-> out.plan]

\* DistributedStrategy.distribute_module
distribute_module(final_layers, model) ==
    LET module_name == module.cls
    IN  /\ IF should_distribute(module_name)
           THEN \E out \in {distribute_module_of(strategy, module, final_layers, model)} :
                   /\ module' = out.module
                   /\ ret' = CallRecord("distribute_module", 0, final_layers, model,
                                        TRUE, out)
           ELSE /\ module' = module
                /\ ret' = CallRecord("distribute_module", 0, final_layers, model,
                                     FALSE, Outcome(module, "module", NoDevice, EmptyPlan))
        /\ UNCHANGED <<ignore_modules, strategy, ctor, block, tp_plan, fwd>>

\* DistributedStrategy.distribute_layer
distribute_layer(layer, model) ==
    LET block_name == module.cls
    IN  /\ IF should_distribute(block_name)
           THEN \E out \in {distribute_layer_of(strategy, module, layer, model)} :
                   /\ module' = out.module
                   /\ ret' = CallRecord("distribute_layer", layer, FALSE, model,
                                        TRUE, out)
           ELSE /\ module' = module
                /\ ret' = CallRecord("distribute_layer", layer, FALSE, model,
                                     FALSE, Outcome(module, "module", NoDevice, EmptyPlan))
        /\ UNCHANGED <<ignore_modules, strategy, ctor, block, tp_plan, fwd>>

---------------------------------------------------------------------------
(* DeviceMover.forward                                                     *)

\* the devices a tensor argument may be on
TensorDevices == {"cpu"} \cup DeviceIds

\* the values of an argument: a tensor on a device, or something else
ArgValues ==
    {[tensor |-> TRUE, device |-> d, data |-> "tensor"] : d \in TensorDevices}
    \cup {[tensor |-> FALSE, device |-> NoDevice, data |-> "None"]}

\* the keyword names of a call
KeywordNames == {"mask", "use_cache"}

\* torch.Tensor.to(device)
to(arg, device) == [arg EXCEPT !.device = device]

\* faulty variant: every argument is handed on as it came
MoveArgNever(arg, device) == arg

\* arg.to(device) if isinstance(arg, torch.Tensor) else arg
MoveArg(arg, device) == IF arg.tensor THEN to(arg, device) ELSE arg

\* args = [... for arg in args]
MovedArgs(args, device) == [i \in DOMAIN args |-> MoveArg(args[i], device)]

\* kwargs = {k: ... for k in kwargs}
MovedKwargs(kwargs, device) == [k \in DOMAIN kwargs |-> MoveArg(kwargs[k], device)]

NoForward == [called |-> FALSE, args |-> <<>>, kwargs |-> <<>>,
              module_args |-> <<>>, module_kwargs |-> <<>>,
              output |-> [tensor |-> FALSE, device |-> NoDevice, data |-> "None"],
              result |-> [tensor |-> FALSE, device |-> NoDevice, data |-> "None"]]

\* DeviceMover.forward(*args, **kwargs) for the call fwd holds; output is
\* what self.module returns for the arguments handed on.  self.device is
\* __dict__["device"], the dictionary the wrapper shares with the wrapped
\* module.
forward(output) ==
    /\ module.dict_device # NoDevice
    /\ ~fwd.called
    /\ LET device == module.dict_device
       IN  fwd' = [fwd EXCEPT
                      !.called = TRUE,
                      !.module_args = MovedArgs(fwd.args, device),
                      !.module_kwargs = MovedKwargs(fwd.kwargs, device),
                      !.output = output,
                      !.result = output]
    /\ UNCHANGED <<ignore_modules, strategy, ctor, module, ret, block, tp_plan>>

---------------------------------------------------------------------------
(* Specifications.                                                         *)

\* the attention head counts of a block: kvheads divides nheads
HeadCounts ==
    {h \in (1..MaxHeads) \X (1..MaxHeads) : h[1] % h[2] = 0}

\* an nn.Module before any strategy touched it
NewModule(cls, device, heads) ==
    [cls |-> cls, device |-> device, materialized |-> FALSE,
     nheads |-> IF HasAttn(cls) THEN heads[1] ELSE 0,
     kvheads |-> IF HasAttn(cls) THEN heads[2] ELSE 0,
     dict_device |-> NoDevice]

\* where a module handed to a strategy is: on the meta device only when the
\* strategy was built with from_meta
StartDevices(from_meta) == IF from_meta THEN HostDevices ELSE {"cpu"}

\* the device lists of a run: each device named once
RunDeviceLists ==
    {d \in DeviceLists(MaxRunDevices) :
        \A i, j \in DOMAIN d : d[i] = d[j] => i = j}

CtorArgs(devices, num_layers, from_meta) ==
    [devices |-> devices, num_layers |-> num_layers, from_meta |-> from_meta,
     done |-> TRUE, err |-> FALSE]

NoPlanCall == [use_sequence_parallelism |-> FALSE, done |-> FALSE, plan |-> EmptyPlan]

\* what no call of a run touches
InitRest ==
    /\ ret = NoCall
    /\ block = <<>>
    /\ tp_plan = NoPlanCall
    /\ fwd = NoForward

\* a run with the identity strategy
InitNotDistributed ==
    \E from_meta \in BOOLEAN, cls \in ModuleClasses :
    \E d \in StartDevices(from_meta) :
       /\ strategy = NotDistributed(from_meta)
       /\ ctor = CtorArgs(<<>>, 0, from_meta)
       /\ module = NewModule(cls, d, <<MaxHeads, MaxHeads>>)

\* a run with a UniformModelParallelStrategy
InitUniform ==
    \E from_meta \in BOOLEAN, cls \in ModuleClasses :
    \E d \in StartDevices(from_meta),
       devices \in RunDeviceLists, num_layers \in 0..MaxRunLayers :
       /\ strategy = UniformModelParallelStrategy(devices, num_layers, from_meta)
       /\ ctor = CtorArgs(devices, num_layers, from_meta)
       /\ module = NewModule(cls, d, <<MaxHeads, MaxHeads>>)

\* a run with a TensorParallelStrategy
InitTensorParallel ==
    \E from_meta \in BOOLEAN, cls \in ModuleClasses :
    \E d \in StartDevices(from_meta),
       world \in 1..MaxWorld, sp \in BOOLEAN, heads \in HeadCounts :
       /\ strategy = TensorParallelStrategy(world, sp, from_meta)
       /\ ctor = CtorArgs(<<>>, 0, from_meta)
       /\ module = NewModule(cls, d, heads)

\* a run: the ignore list was read, a strategy has been constructed, and a
\* module is about to be distributed
Init ==
    /\ ignore_modules \in IgnoreLists
    /\ InitNotDistributed \/ InitUniform \/ InitTensorParallel
    /\ InitRest

\* the layer indices a caller may pass: past both ends of the longest table
LayerIndices == (-(MaxRunLayers + 1))..(MaxRunLayers + 1)

Next ==
    \/ \E final_layers \in BOOLEAN, model \in ModelTags :
          distribute_module(final_layers, model)
    \/ \E layer \in LayerIndices, model \in ModelTags :
          distribute_layer(layer, model)

Spec == Init /\ [][Next]_vars

---------------------------------------------------------------------------
(* UniformModelParallelStrategy(devices, num_layers, from_meta) on its     *)
(* own: the arguments are drawn, the constructor runs.                     *)

InitTable ==
    /\ ignore_modules = {}
    /\ strategy = NoOpStrategy
    /\ ctor \in [devices : DeviceLists(MaxDevices), num_layers : 0..MaxLayers,
                 from_meta : BOOLEAN, done : {FALSE}, err : {FALSE}]
    /\ module = NoModule
    /\ InitRest

\* UniformModelParallelStrategy.__init__; an IndexError raised by an
\* assignment leaves no strategy object
NewUniformModelParallelStrategy ==
    /\ ~ctor.done
    /\ \E st \in {BuildLayerToDevice(ctor.devices, ctor.num_layers)} :
          /\ ctor' = [ctor EXCEPT !.done = TRUE, !.err = st.err]
          /\ strategy' =
                IF st.err THEN strategy
                ELSE StrategyObject("UniformModelParallelStrategy", ctor.from_meta,
                                    st.layer_to_device, 0, FALSE)
    /\ UNCHANGED <<ignore_modules, module, ret, block, tp_plan, fwd>>

NextTable == NewUniformModelParallelStrategy

SpecTable == InitTable /\ [][NextTable]_vars

---------------------------------------------------------------------------
(* generate_layer_plan on its own: a block and the flag are drawn, the     *)
(* function runs.                                                          *)

\* a sub-module as named_modules() yields it
NamedSubmodules == [name : SubmoduleNames, cls : SubmoduleClasses]

\* the blocks: up to MaxSubmodules sub-modules with distinct names, and the
\* blocks of the module classes of a run
Blocks ==
    {b \in UNION {[1..k -> NamedSubmodules] : k \in 1..MaxSubmodules} :
        \A i, j \in DOMAIN b : b[i].name = b[j].name => i = j}
    \cup {NamedModules(c) : c \in ModuleClasses}

InitPlan ==
    /\ ignore_modules = {}
    /\ strategy = NoOpStrategy
    /\ ctor = CtorArgs(<<>>, 0, FALSE)
    /\ module = NoModule
    /\ ret = NoCall
    /\ block \in Blocks
    /\ tp_plan \in [use_sequence_parallelism : BOOLEAN, done : {FALSE},
                    plan : {EmptyPlan}]
    /\ fwd = NoForward

\* tp_plan = generate_layer_plan(block, use_sequence_parallelism)
GenerateLayerPlan ==
    /\ ~tp_plan.done
    /\ tp_plan' = [tp_plan EXCEPT
                      !.done = TRUE,
                      !.plan = generate_layer_plan(block, tp_plan.use_sequence_parallelism)]
    /\ UNCHANGED <<ignore_modules, strategy, ctor, module, ret, block, fwd>>

NextPlan == GenerateLayerPlan

SpecPlan == InitPlan /\ [][NextPlan]_vars

---------------------------------------------------------------------------
(* A DeviceMover on its own: constructed around a module, then invoked.    *)

\* the positional arguments of a call
ArgLists == UNION {[1..k -> ArgValues] : k \in 0..MaxArgs}

\* the keyword arguments of a call
KwargDicts == UNION {[K -> ArgValues] : K \in SUBSET KeywordNames}

InitMover ==
    /\ ignore_modules = {}
    /\ strategy = NoOpStrategy
    /\ ctor = CtorArgs(<<>>, 0, FALSE)
    /\ \E cls \in ModuleClasses, device \in DeviceIds :
          module = DeviceMoverInit(NewModule(cls, "cpu", <<MaxHeads, MaxHeads>>), device)
    /\ ret = NoCall
    /\ block = <<>>
    /\ tp_plan = NoPlanCall
    /\ \E args \in ArgLists, kwargs \in KwargDicts :
          fwd = [NoForward EXCEPT !.args = args, !.kwargs = kwargs]

NextMover == \E output \in ArgValues : forward(output)

SpecMover == InitMover /\ [][NextMover]_vars

---------------------------------------------------------------------------
(* Properties of UniformModelParallelStrategy.__init__ (SpecTable).        *)

IsUniform == strategy.cls = "UniformModelParallelStrategy"

Injective(s) == \A i, j \in DOMAIN s : s[i] = s[j] => i = j

\* how many layers the table gives to device d
LayersOn(table, d) == Cardinality({i \in DOMAIN table : table[i] = d})

\* sizes[1] + ... + sizes[k]
RECURSIVE SizesUpTo(_, _)
SizesUpTo(sizes, k) == IF k = 0 THEN 0 ELSE SizesUpTo(sizes, k - 1) + sizes[k]

\* table is, for k = 1, 2, ..., sizes[k] copies of devices[k], in that order
IsBlocks(table, devices, sizes) ==
    /\ Len(table) = SizesUpTo(sizes, Len(devices))
    /\ \A k \in DOMAIN devices :
          \A i \in (SizesUpTo(sizes, k - 1) + 1)..SizesUpTo(sizes, k) :
             i \in DOMAIN table /\ table[i] = devices[k]

\* C1: for a device list of length D >= 1 and a layer count L >= 0 the
\* constructor raises nothing and leaves a layer_to_device of exactly L
\* entries, each one of the input devices; the devices' shares differ by at
\* most 1: the table is one run of layers per list position, the runs'
\* lengths being lo or lo + 1 for some lo, and when the list names each
\* device once, the numbers of layers on any two of its devices differ by at
\* most 1.
C1_TableBalanced ==
    ctor.done =>
        LET table == strategy.layer_to_device
            devices == ctor.devices
        IN  /\ ~ctor.err
            /\ IsUniform
            /\ Len(table) = ctor.num_layers
            /\ \A i \in DOMAIN table : table[i] \in Range(devices)
            /\ \E lo \in 0..ctor.num_layers :
                  \E sizes \in [DOMAIN devices -> {lo, lo + 1}] :
                     IsBlocks(table, devices, sizes)
            /\ Injective(devices) =>
                  \A d1, d2 \in Range(devices) :
                     /\ LayersOn(table, d1) - LayersOn(table, d2) <= 1
                     /\ LayersOn(table, d2) - LayersOn(table, d1) <= 1

\* C1 witness: three distinct devices, seven layers (a remainder of one)
C1_Witness ==
    /\ ctor.done
    /\ Len(ctor.devices) = 3
    /\ Injective(ctor.devices)
    /\ ctor.num_layers = 7
    /\ Len(strategy.layer_to_device) = 7

\* C2: with base = L div D and r = L mod D, the k-th device of the list
\* (0-based) holds the base + 1 consecutive layers from k * (base + 1) on if
\* k < r, and the base consecutive layers from r + k * base on otherwise;
\* devices = [0, 1, 2] with L = 8 gives [0, 0, 0, 1, 1, 1, 2, 2].
C2_RemainderFirst ==
    ctor.done =>
        LET table == strategy.layer_to_device
            devices == ctor.devices
            D == Len(devices)
            L == ctor.num_layers
            base == L \div D
            r == L % D
            count(k) == IF k < r THEN base + 1 ELSE base
            first(k) == IF k < r THEN k * (base + 1) ELSE r + k * base
        IN  /\ Len(table) = L
            /\ \A k \in 0..(D - 1) :
                  \A i \in first(k)..(first(k) + count(k) - 1) :
                     i + 1 \in DOMAIN table /\ table[i + 1] = devices[k + 1]
            /\ (devices = <<"0", "1", "2">> /\ L = 8) =>
                  table = <<"0", "0", "0", "1", "1", "1", "2", "2">>

\* C2 witness: the example of the specification
C2_Witness ==
    /\ ctor.done
    /\ ctor.devices = <<"0", "1", "2">>
    /\ ctor.num_layers = 8
    /\ LayersOn(strategy.layer_to_device, "2") = 2

---------------------------------------------------------------------------
(* Properties of the distribute_* calls of a run (Spec).                   *)

IsTensorParallel == strategy.cls = "TensorParallelStrategy"

\* the last call reached UniformModelParallelStrategy._distribute_layer
UniformPlacedLayer == IsUniform /\ ret.op = "distribute_layer" /\ ret.delegated

\* the last call reached UniformModelParallelStrategy._distribute_module
UniformPlacedModule == IsUniform /\ ret.op = "distribute_module" /\ ret.delegated

\* the last call reached TensorParallelStrategy._distribute_layer
TensorParallelPlacedLayer ==
    IsTensorParallel /\ ret.op = "distribute_layer" /\ ret.delegated

\* C3: whatever the strategy, a distribute_layer or distribute_module call
\* on a module whose type name is in the ignore list returns that module,
\* the strategy-specific operation is not invoked and the module is left as
\* it was; on any other module the call is the strategy-specific operation:
\* its effect on the module and what it returns.
C3_IgnoreGate ==
    [][ IF module.cls \in ignore_modules
        THEN /\ ret'.result = "module"
             /\ ~ret'.delegated
             /\ module' = module
             /\ ret'.device = NoDevice
             /\ ret'.plan = EmptyPlan
        ELSE LET out == IF ret'.op = "distribute_layer"
                        THEN distribute_layer_of(strategy, module, ret'.layer,
                                                 ret'.model)
                        ELSE distribute_module_of(strategy, module,
                                                  ret'.final_layers, ret'.model)
             IN  /\ ret'.delegated
                 /\ module' = out.module
                 /\ ret'.result = out.result
                 /\ ret'.device = out.device
                 /\ ret'.plan = out.plan ]_vars

\* C3 witness: a tensor-parallel distribute_layer with a recognized tag on
\* an ignored block, on a mesh that would have changed its head counts
C3_Witness ==
    /\ IsTensorParallel
    /\ strategy.mesh_size = 2
    /\ module.cls \in ignore_modules
    /\ ret.op = "distribute_layer"
    /\ ret.model = "llama"
    /\ ret.result = "module"
    /\ ~ret.delegated
    /\ module.nheads = MaxHeads
    /\ module.dict_device = NoDevice

\* C4 as stated: _distribute_layer raises IndexError for every layer index
\* outside [0, L) and succeeds only inside it.
C4_IndexErrorOutsideZeroToL ==
    UniformPlacedLayer =>
        (ret.result = "IndexError" <=> ret.layer \notin 0..(ctor.num_layers - 1))

\* C4, amended: _distribute_layer raises IndexError exactly for the layer
\* indices outside [-L, L); for an index in [0, L) it returns a DeviceMover on
\* layer_to_device[index], and for an index in [-L, 0) Python counts from the
\* end: a DeviceMover on layer_to_device[L + index].
C4_IndexErrorOutsideMinusLToL ==
    UniformPlacedLayer =>
        LET L == ctor.num_layers
            table == strategy.layer_to_device
        IN  /\ ret.result = "IndexError" <=> ret.layer \notin (-L)..(L - 1)
            /\ ret.layer \in 0..(L - 1) =>
                  ret.result = "DeviceMover" /\ ret.device = table[ret.layer + 1]
            /\ ret.layer \in (-L)..(-1) =>
                  ret.result = "DeviceMover" /\ ret.device = table[L + ret.layer + 1]
            /\ ret.result \in {"IndexError", "DeviceMover"}

\* C4 witness: a negative index that is served, and the module wrapped
C4_Witness ==
    /\ UniformPlacedLayer
    /\ ctor.num_layers = 2
    /\ ret.layer = -2
    /\ ret.result = "DeviceMover"
    /\ ret.device = strategy.layer_to_device[1]
    /\ module.dict_device = ret.device

\* C7: TensorParallelStrategy._distribute_layer with a model tag that is
\* given (not None, not empty: the code's own test) and is neither 'llama'
\* nor 'granite' raises ValueError, so returns nothing, and leaves the block
\* as it was; with any other tag it does not raise ValueError.
C7_UnsupportedModel ==
    [][ (IsTensorParallel /\ ret'.op = "distribute_layer" /\ ret'.delegated) =>
           IF ret'.model \notin {NONE, "", "llama", "granite"}
           THEN ret'.result = "ValueError" /\ module' = module
           ELSE ret'.result # "ValueError" ]_vars

\* C7 witness: the tag 'bert' on a block with attention heads
C7_Witness ==
    /\ TensorParallelPlacedLayer
    /\ ret.model = "bert"
    /\ ret.result = "ValueError"
    /\ HasAttn(module.cls)

\* C9: _distribute_module looks up layer_to_device[L-1] for the final layers
\* and layer_to_device[0] otherwise (an IndexError exactly when the table is
\* empty); with from_meta it materializes the module on that device and
\* returns the module itself, without from_meta it returns a DeviceMover on
\* that device.  _distribute_layer returns a DeviceMover on
\* layer_to_device[layer] whenever the index is served, from_meta or not.
C9_ModulePlacement ==
    LET table == strategy.layer_to_device
        L == Len(table)
    IN  /\ UniformPlacedModule =>
              IF L = 0 THEN ret.result = "IndexError"
              ELSE /\ ret.device = IF ret.final_layers THEN table[L] ELSE table[1]
                   /\ module.device = ret.device
                   /\ IF strategy.from_meta
                      THEN ret.result = "module" /\ module.materialized
                      ELSE ret.result = "DeviceMover" /\ module.dict_device = ret.device
        /\ (UniformPlacedLayer /\ ret.result # "IndexError") =>
              /\ ret.result = "DeviceMover"
              /\ ret.device = PyGetItem(table, ret.layer)
              /\ module.device = ret.device
              /\ module.dict_device = ret.device
              /\ strategy.from_meta => module.materialized

\* C9 witness: the final layers' module, from_meta, two devices in use:
\* materialized on the last one and returned unwrapped
C9_Witness ==
    /\ UniformPlacedModule
    /\ strategy.from_meta
    /\ ret.final_layers
    /\ Len(strategy.layer_to_device) = 2
    /\ strategy.layer_to_device[1] # strategy.layer_to_device[2]
    /\ ret.result = "module"
    /\ ret.device = strategy.layer_to_device[2]
    /\ module.materialized
    /\ module.dict_device = NoDevice

\* C10: under a TensorParallelStrategy a block's nheads and kvheads change
\* only in a _distribute_layer call with the tag 'llama' or 'granite', and
\* such a call replaces each by its floor division by the mesh size (no
\* divisibility test); every other call (no tag, an unrecognized tag, an
\* ignored block, distribute_module) leaves both as they were.
C10_LocalHeads ==
    [][ IsTensorParallel =>
           IF /\ ret'.op = "distribute_layer"
              /\ ret'.delegated
              /\ ret'.model \in {"llama", "granite"}
              /\ HasAttn(module.cls)
           THEN /\ module'.nheads = module.nheads \div strategy.mesh_size
                /\ module'.kvheads = module.kvheads \div strategy.mesh_size
           ELSE /\ module'.nheads = module.nheads
                /\ module'.kvheads = module.kvheads ]_vars

\* C10 witness: a mesh of three; kvheads = 0 can only come from a kvheads of
\* one or two, which three does not divide: truncated without an error
C10_Witness ==
    /\ TensorParallelPlacedLayer
    /\ ret.model = "granite"
    /\ ret.result = "parallelize_module"
    /\ strategy.mesh_size = 3
    /\ module.nheads = 1
    /\ module.kvheads = 0

---------------------------------------------------------------------------
(* Properties of generate_layer_plan (SpecPlan).                           *)

\* the names a column-wise pattern accepts
ColwiseNames == UNION Range(colwise_patterns)

\* the names a row-wise pattern accepts
RowwiseNames == UNION Range(rowwise_patterns)

\* C5: with sequence parallelism off the plan marks every Linear sub-module
\* whose name a column-wise pattern accepts ColwiseParallel, every Linear
\* sub-module whose name a row-wise pattern accepts RowwiseParallel, and has
\* no entry for anything else: not for a sub-module whose name neither
\* pattern set accepts, not for a name the block does not have.  For query,
\* dense, w1 and w2 that is column, row, column, row.
C5_PatternPlan ==
    (tp_plan.done /\ ~tp_plan.use_sequence_parallelism) =>
        LET plan == tp_plan.plan
        IN  /\ \A i \in DOMAIN block :
                  LET name == block[i].name
                      linear == block[i].cls = "Linear"
                  IN  /\ (linear /\ name \in ColwiseNames) =>
                            name \in DOMAIN plan /\ plan[name] = "ColwiseParallel"
                      /\ (linear /\ name \in RowwiseNames) =>
                            name \in DOMAIN plan /\ plan[name] = "RowwiseParallel"
                      /\ name \notin (ColwiseNames \cup RowwiseNames) =>
                            name \notin DOMAIN plan
                      /\ ~linear => name \notin DOMAIN plan
            /\ DOMAIN plan \subseteq {block[i].name : i \in DOMAIN block}
            /\ block = NamedModules("LLaMABlock") =>
                  /\ DOMAIN plan = {"attn.in_proj.query", "attn.dense",
                                    "ff_sub_layer.w1", "ff_sub_layer.w2"}
                  /\ plan["attn.in_proj.query"] = "ColwiseParallel"
                  /\ plan["attn.dense"] = "RowwiseParallel"
                  /\ plan["ff_sub_layer.w1"] = "ColwiseParallel"
                  /\ plan["ff_sub_layer.w2"] = "RowwiseParallel"

\* C5 witness: the block with query, dense, w1, w2 and two sub-modules no
\* pattern accepts, planned with sequence parallelism off
C5_Witness ==
    /\ tp_plan.done
    /\ ~tp_plan.use_sequence_parallelism
    /\ block = NamedModules("LLaMABlock")
    /\ Cardinality(DOMAIN tp_plan.plan) = 4

\* C6: with sequence parallelism on every LayerNorm, Dropout or
\* LayerNormParameterized sub-module is in the plan as SequenceParallel,
\* whatever its name: also under a name a column-wise or row-wise pattern
\* accepts.
C6_SequenceParallelFirst ==
    (tp_plan.done /\ tp_plan.use_sequence_parallelism) =>
        \A i \in DOMAIN block :
           block[i].cls \in {"LayerNorm", "Dropout", "LayerNormParameterized"} =>
              /\ block[i].name \in DOMAIN tp_plan.plan
              /\ tp_plan.plan[block[i].name] = "SequenceParallel"

\* C6 witness: a LayerNorm under a name a row-wise pattern accepts and a
\* Dropout under a name a column-wise pattern accepts
C6_Witness ==
    /\ tp_plan.done
    /\ tp_plan.use_sequence_parallelism
    /\ \E i, j \in DOMAIN block :
          /\ block[i].cls = "LayerNorm" /\ block[i].name = "attn.dense"
          /\ block[j].cls = "Dropout" /\ block[j].name = "ff_sub_layer.w1"
    /\ tp_plan.plan["attn.dense"] = "SequenceParallel"

---------------------------------------------------------------------------
(* Properties of DeviceMover.forward (SpecMover).                          *)

\* what forward must hand on for the argument arg: a tensor with the same
\* data on the target device, anything else as it came
HandedOn(arg, passed, target) ==
    IF arg.tensor
    THEN passed.tensor /\ passed.data = arg.data /\ passed.device = target
    ELSE passed = arg

\* C8: an invocation hands the wrapped module as many positional arguments
\* as it got, in the same order, and the same keyword names; every tensor
\* among them is on the wrapper's device, every other argument is as it
\* came; and it returns what the wrapped module returned, where that is.
C8_ForwardMovesInputs ==
    fwd.called =>
        LET target == module.dict_device
        IN  /\ target \in DeviceIds
            /\ Len(fwd.module_args) = Len(fwd.args)
            /\ \A i \in DOMAIN fwd.args :
                  HandedOn(fwd.args[i], fwd.module_args[i], target)
            /\ DOMAIN fwd.module_kwargs = DOMAIN fwd.kwargs
            /\ \A k \in DOMAIN fwd.kwargs :
                  HandedOn(fwd.kwargs[k], fwd.module_kwargs[k], target)
            /\ fwd.result = fwd.output

\* C8 witness: a tensor on another device and a non-tensor, positional and
\* keyword, and an output that is a tensor on a device other than the target
C8_Witness ==
    /\ fwd.called
    /\ Len(fwd.args) = 2
    /\ fwd.args[1].tensor /\ fwd.args[1].device # module.dict_device
    /\ ~fwd.args[2].tensor
    /\ DOMAIN fwd.kwargs = {"mask", "use_cache"}
    /\ fwd.kwargs["mask"].tensor /\ fwd.kwargs["mask"].device = "cpu"
    /\ ~fwd.kwargs["use_cache"].tensor
    /\ fwd.module_args[1].device = module.dict_device
    /\ fwd.result.tensor /\ fwd.result.device \notin {module.dict_device, NoDevice}

=============================================================================
